---- MODULE Spec2Model ----
(***************************************************************************)
(* MoviWebApp: users, their favourite movies, the DataManager that is the  *)
(* only writer of the store, the OMDb lookup, and the HTML and JSON routes *)
(* of app.py.                                                              *)
(*                                                                         *)
(* Text is a sequence of one-character strings (so that str.strip, split   *)
(* and isdigit are computed, not assumed); a director or a poster URL is a *)
(* one-token sequence.  Python's None is the text None below, an optional  *)
(* integer is <<>> (None) or <<n>>.                                        *)
(***************************************************************************)
EXTENDS Integers, Sequences, FiniteSets, TLC

\* Largest user id and movie id the store hands out (cap the id counters).
MaxUsers == 2
MaxMovies == 2
\* Longest metadata Year text the extraction specification enumerates.
MaxYearLen == 3

None == <<"<None>">>
NoYear == <<>>

------------------------------------------------------------------------------
(* Text helpers: Python str methods *)

Falsy(x) == x = None \/ x = <<>>

\* Python `x or y`
Or(x, y) == IF Falsy(x) THEN y ELSE x

RECURSIVE lstrip(_)
lstrip(s) == IF s # <<>> /\ Head(s) = " " THEN lstrip(Tail(s)) ELSE s

RECURSIVE rstrip(_)
rstrip(s) == IF s # <<>> /\ s[Len(s)] = " " THEN rstrip(SubSeq(s, 1, Len(s) - 1)) ELSE s

\* str.strip()
strip(s) == rstrip(lstrip(s))

\* `(x or "").strip()`
or_empty_strip(x) == strip(Or(x, <<>>))

RECURSIVE split_first(_, _)
\* s.split(sep)[0]: the text before the first sep
split_first(s, sep) ==
    IF s = <<>> \/ Head(s) = sep THEN <<>>
    ELSE <<Head(s)>> \o split_first(Tail(s), sep)

\* U+2013 EN DASH and U+00B2 SUPERSCRIPT TWO, as one-character texts
EnDash == "<en-dash>"
Sup2 == "<sup-2>"

DecimalChars == {"0", "1", "2", "3", "4", "5", "6", "7", "8", "9"}
\* characters str.isdigit() accepts and int() rejects (superscripts and the like)
DigitOnlyChars == {Sup2}

DigitVal(c) ==
    CASE c = "0" -> 0 [] c = "1" -> 1 [] c = "2" -> 2 [] c = "3" -> 3
      [] c = "4" -> 4 [] c = "5" -> 5 [] c = "6" -> 6 [] c = "7" -> 7
      [] c = "8" -> 8 [] c = "9" -> 9

\* str.isdigit()
isdigit(s) == s # <<>> /\ \A i \in 1..Len(s) : s[i] \in DecimalChars \cup DigitOnlyChars

\* int(s) raises ValueError unless every character is a decimal digit
int_raises(s) == s = <<>> \/ \E i \in 1..Len(s) : s[i] \notin DecimalChars

RECURSIVE int_value(_)
int_value(s) ==
    IF s = <<>> THEN 0
    ELSE int_value(SubSeq(s, 1, Len(s) - 1)) * 10 + DigitVal(s[Len(s)])

------------------------------------------------------------------------------
(* The store: models.py *)

VARIABLES users, movies, apiKey, resp, sess, xin, xhtml, xapi

vars == <<users, movies, apiKey, resp, sess, xin, xhtml, xapi>>

\* A table's next INTEGER PRIMARY KEY: one more than the largest id in it.
next_id(rows) ==
    IF rows = {} THEN 1
    ELSE (CHOOSE r \in rows : \A q \in rows : q.id <= r.id).id + 1

uq_user_name_off(us) == TRUE

\* users.name UNIQUE
uq_user_name(us) == \A u1, u2 \in us : u1.name = u2.name => u1 = u2

uq_user_movie_title_off(ms) == TRUE

\* UNIQUE(user_id, title) on movies
uq_user_movie_title(ms) ==
    \A m1, m2 \in ms : (m1.user_id = m2.user_id /\ m1.title = m2.title) => m1 = m2

\* Query.get(id)
get_user(us, user_id) == {u \in us : u.id = user_id}
get_movie(ms, movie_id) == {m \in ms : m.id = movie_id}

------------------------------------------------------------------------------
(* The unit of work of the session: what one DataManager call stages, and   *)
(* what commit() does with it against the tables as they are at that time.  *)

Raise(msg) == [op |-> "raise", msg |-> msg]

create_user_stage_nostrip(name) ==
    LET n == Or(name, <<>>) IN
    IF strip(n) = <<>> THEN Raise("User name cannot be empty.")
    ELSE [op |-> "insert_user", name |-> n]

create_user_stage(name) ==
    LET n == or_empty_strip(name) IN
    IF n = <<>> THEN Raise("User name cannot be empty.")
    ELSE [op |-> "insert_user", name |-> n]

add_movie_stage_nouser(us, user_id, title, director, year, poster_url) ==
    LET t == or_empty_strip(title) IN
    IF t = <<>> THEN Raise("Movie title cannot be empty.")
    ELSE [op |-> "insert_movie", title |-> t, director |-> director,
          year |-> year, poster_url |-> poster_url, user_id |-> user_id]

add_movie_stage(us, user_id, title, director, year, poster_url) ==
    LET t == or_empty_strip(title) IN
    IF t = <<>> THEN Raise("Movie title cannot be empty.")
    ELSE IF get_user(us, user_id) = {} THEN Raise("User does not exist.")
    ELSE [op |-> "insert_movie", title |-> t, director |-> director,
          year |-> year, poster_url |-> poster_url, user_id |-> user_id]

allowed == {"title", "director", "year", "poster_url"}

update_movie_stage(ms, movie_id, fields) ==
    IF get_movie(ms, movie_id) = {} THEN Raise("Movie not found.")
    ELSE
        LET movie == CHOOSE m \in get_movie(ms, movie_id) : TRUE
            f == [k \in (DOMAIN fields) \cap allowed |-> fields[k]]
        IN  IF "title" \in DOMAIN f /\ or_empty_strip(f["title"]) = <<>>
            THEN Raise("Title cannot be empty.")
            ELSE [op |-> "update_movie", id |-> movie_id, user_id |-> movie.user_id,
                  \* setattr marks a column dirty only when its value changes
                  cols |-> [k \in {c \in DOMAIN f : f[c] # movie[c]} |-> f[k]]]

delete_movie_stage(ms, movie_id) ==
    IF get_movie(ms, movie_id) = {} THEN Raise("Movie not found.")
    ELSE [op |-> "delete_movie", id |-> movie_id]

\* The tables of the open transaction after the session's statement ran.
flush(us, ms, st) ==
    CASE st.op = "insert_user" ->
            [users |-> us \cup {[id |-> next_id(us), name |-> st.name]},
             movies |-> ms, stale |-> FALSE, id |-> next_id(us)]
      [] st.op = "insert_movie" ->
            [users |-> us,
             movies |-> ms \cup {[id |-> next_id(ms), title |-> st.title,
                                  director |-> st.director, year |-> st.year,
                                  poster_url |-> st.poster_url, user_id |-> st.user_id]},
             stale |-> FALSE, id |-> next_id(ms)]
      [] st.op = "update_movie" ->
            IF DOMAIN st.cols = {}
            THEN [users |-> us, movies |-> ms, stale |-> FALSE, id |-> st.id]
            ELSE IF get_movie(ms, st.id) = {}
            \* UPDATE ... WHERE id = ? matched no row
            THEN [users |-> us, movies |-> ms, stale |-> TRUE, id |-> st.id]
            ELSE [users |-> us,
                  movies |-> {IF m.id = st.id
                              THEN [k \in DOMAIN m |->
                                        IF k \in DOMAIN st.cols THEN st.cols[k] ELSE m[k]]
                              ELSE m : m \in ms},
                  stale |-> FALSE, id |-> st.id]
      [] st.op = "delete_movie" ->
            [users |-> us, movies |-> ms \ get_movie(ms, st.id),
             stale |-> FALSE, id |-> st.id]

\* session.rollback(): the open transaction's tables are discarded
rollback(us, ms, t) == [users |-> us, movies |-> ms]

\* session.commit(): flush, then the engine's constraint check decides
commit(us, ms, st) ==
    LET t == flush(us, ms, st) IN
    IF t.stale THEN [users |-> us, movies |-> ms, err |-> "StaleDataError", id |-> t.id, t |-> t]
    ELSE IF ~(uq_user_name(t.users) /\ uq_user_movie_title(t.movies))
    THEN [users |-> us, movies |-> ms, err |-> "IntegrityError", id |-> t.id, t |-> t]
    ELSE [users |-> t.users, movies |-> t.movies, err |-> "", id |-> t.id, t |-> t]

------------------------------------------------------------------------------
(* DataManager: each call, start to finish *)

Result(us, ms, exc, msg, id) ==
    [users |-> us, movies |-> ms, exc |-> exc, msg |-> msg, id |-> id]

\* What a DataManager call makes of its staged statement and of commit().
finish(us, ms, st, dupmsg) ==
    IF st.op = "raise" THEN Result(us, ms, "ValueError", st.msg, 0)
    ELSE
        LET c == commit(us, ms, st) IN
        IF c.err = "IntegrityError"
        THEN LET r == rollback(us, ms, c.t)
             IN  Result(r.users, r.movies, "ValueError", dupmsg, 0)
        ELSE IF c.err = "StaleDataError"
        THEN Result(c.users, c.movies, "StaleDataError", "", 0)
        ELSE Result(c.users, c.movies, "", "", c.id)

create_user(us, ms, name) ==
    finish(us, ms, create_user_stage(name), "User already exists.")

add_movie(us, ms, user_id, title, director, year, poster_url) ==
    finish(us, ms, add_movie_stage(us, user_id, title, director, year, poster_url),
           "This user already has a movie with that title.")

\* The named parameters of `def update_movie(self, movie_id: int, **fields)`
update_movie_params == {"self", "movie_id"}

update_movie_fields_first(us, ms, movie_id, fields) ==
    LET rest == [k \in (DOMAIN fields) \ {"title"} |-> fields[k]]
        r == finish(us, ms, update_movie_stage(ms, movie_id, rest),
                    "Duplicate movie title for this user.")
    IN  IF r.exc # "" THEN r
        ELSE finish(r.users, r.movies, update_movie_stage(r.movies, movie_id, fields),
                    "Duplicate movie title for this user.")

update_movie(us, ms, movie_id, fields) ==
    \* update_movie(movie_id, **fields): a key that names a parameter cannot bind
    IF (DOMAIN fields) \cap update_movie_params # {}
    THEN Result(us, ms, "TypeError", "", 0)
    ELSE finish(us, ms, update_movie_stage(ms, movie_id, fields),
                "Duplicate movie title for this user.")

\* delete_movie has no except clause: commit() is not expected to fail
delete_movie(us, ms, movie_id) ==
    finish(us, ms, delete_movie_stage(ms, movie_id), "")

------------------------------------------------------------------------------
(* The OMDb lookup: omdb.py.  `net` is what the network call does this    *)
(* time: [exc |-> "RequestException"] or [exc |-> "", info |-> the JSON]. *)

Info(title, director, year, poster, response) ==
    [Title |-> title, Director |-> director, Year |-> year, Poster |-> poster,
     Response |-> response]

\* {} and null: `not info`
EmptyInfo == Info(None, None, None, None, None)

fetch_omdb_by_title(key, net) ==
    IF ~key THEN [exc |-> "RuntimeError", info |-> EmptyInfo]
    ELSE net

no_match_empty_only(info) == info = EmptyInfo

\* `not info or info.get("Response") == "False"`
no_match(info) == info = EmptyInfo \/ info.Response = <<"False">>

\* (info.get("Year") or "").split(en dash)[0].strip()
year_str(info) == strip(split_first(Or(info.Year, <<>>), EnDash))

poster_of(info) == IF info.Poster \in {None, <<"N/A">>} THEN None ELSE info.Poster

------------------------------------------------------------------------------
(* What each add-movie route does before it reaches the DataManager *)

Plan(kind, status, msg, exc, title, director, year, poster_url) ==
    [kind |-> kind, status |-> status, msg |-> msg, exc |-> exc, title |-> title,
     director |-> director, year |-> year, poster_url |-> poster_url]

Respond(status, msg, exc) == Plan("respond", status, msg, exc, None, None, NoYear, None)

\* app.add_movie up to the call of data_manager.add_movie
add_movie_plan(form_title, f) ==
    LET title == or_empty_strip(form_title) IN
    IF title = <<>> THEN Respond(302, "Movie title is required.", "")
    ELSE IF f.exc # "" THEN Respond(302, "Failed to fetch movie info", f.exc)
    ELSE IF no_match(f.info) THEN Respond(302, "No OMDb results", "")
    ELSE
        LET ys == year_str(f.info)
            \* int() inside try/except ValueError
            year == IF isdigit(ys) /\ ~int_raises(ys) THEN <<int_value(ys)>> ELSE NoYear
        IN  Plan("call", 0, "", "", Or(f.info.Title, title),
                 Or(f.info.Director, <<"Unknown">>), year, poster_of(f.info))

api_add_movie_plan_502_only_transport(form_title, f) ==
    LET title == or_empty_strip(form_title) IN
    IF title = <<>> THEN Respond(400, "title is required", "")
    ELSE IF f.exc = "RuntimeError" THEN Plan("raise", 500, "", "RuntimeError", None, None, NoYear, None)
    ELSE IF f.exc # "" THEN Respond(502, "OMDb request failed", f.exc)
    ELSE IF no_match(f.info) THEN Respond(404, "no results", "")
    ELSE
        LET ys == year_str(f.info) IN
        IF isdigit(ys) /\ int_raises(ys)
        THEN Plan("raise", 500, "", "ValueError", None, None, NoYear, None)
        ELSE Plan("call", 0, "", "", Or(f.info.Title, title),
                  Or(f.info.Director, <<"Unknown">>),
                  IF isdigit(ys) THEN <<int_value(ys)>> ELSE NoYear, poster_of(f.info))

\* api_add_movie up to the call of data_manager.add_movie
api_add_movie_plan(form_title, f) ==
    LET title == or_empty_strip(form_title) IN
    IF title = <<>> THEN Respond(400, "title is required", "")
    ELSE IF f.exc # "" THEN Respond(502, "OMDb request failed", f.exc)
    ELSE IF no_match(f.info) THEN Respond(404, "no results", "")
    ELSE
        LET ys == year_str(f.info) IN
        \* int() with no except: the ValueError leaves the view
        IF isdigit(ys) /\ int_raises(ys)
        THEN Plan("raise", 500, "", "ValueError", None, None, NoYear, None)
        ELSE Plan("call", 0, "", "", Or(f.info.Title, title),
                  Or(f.info.Director, <<"Unknown">>),
                  IF isdigit(ys) THEN <<int_value(ys)>> ELSE NoYear, poster_of(f.info))

------------------------------------------------------------------------------
(* The routes of app.py.  A response is the route and its path ids, the    *)
(* status, the flashed messages <<category, message, exception>> of an     *)
(* HTML route, the message of a JSON {error: message} body ("" when the    *)
(* body is not an error body) and the exception that left the view.        *)

Response(route, user_id, movie_id, status, flash, error, exc) ==
    [route |-> route, user_id |-> user_id, movie_id |-> movie_id, status |-> status,
     flash |-> flash, error |-> error, exc |-> exc]

\* flash(...) and redirect(...)
Html(route, user_id, movie_id, flash) ==
    Response(route, user_id, movie_id, 302, flash, "", "")

\* return {...}, status
Json(route, user_id, movie_id, status, error, exc) ==
    Response(route, user_id, movie_id, status, <<>>, error, exc)

\* an exception no except clause of the view catches: the 500 handler's page
Uncaught(route, user_id, movie_id, exc) ==
    Response(route, user_id, movie_id, 500, <<>>, "", exc)

Done(us, ms, r) == [users |-> us, movies |-> ms, resp |-> r]

route_create_user(us, ms, form_name) ==
    LET name == or_empty_strip(form_name) IN
    IF name = <<>>
    THEN Done(us, ms, Html("create_user", 0, 0, << <<"error", "Name is required.", "">> >>))
    ELSE
        LET r == create_user(us, ms, name) IN
        IF r.exc = ""
        THEN Done(r.users, r.movies,
                  Html("create_user", 0, 0, << <<"success", "User created!", "">> >>))
        ELSE Done(r.users, r.movies,
                  Html("create_user", 0, 0, << <<"error", r.msg, "">> >>))

route_add_movie(us, ms, key, user_id, form_title, net) ==
    LET p == add_movie_plan(form_title, fetch_omdb_by_title(key, net)) IN
    IF p.kind = "respond"
    THEN Done(us, ms, Html("add_movie", user_id, 0, << <<"error", p.msg, p.exc>> >>))
    ELSE
        LET r == add_movie(us, ms, user_id, p.title, p.director, p.year, p.poster_url) IN
        IF r.exc = ""
        THEN Done(r.users, r.movies,
                  Html("add_movie", user_id, 0, << <<"success", "Added", "">> >>))
        ELSE Done(r.users, r.movies,
                  Html("add_movie", user_id, 0, << <<"error", r.msg, "">> >>))

Merge(f, g) == [k \in (DOMAIN f) \cup (DOMAIN g) |-> IF k \in DOMAIN g THEN g[k] ELSE f[k]]

NoFields == [k \in {} |-> None]

\* app.update_movie lines 226-242: the fields staged for update_movie and the
\* message flashed on the way
update_new_data(movie, title, refetch, f) ==
    LET base == IF title # <<>> THEN [title |-> title] ELSE NoFields IN
    IF ~(refetch \/ title # <<>>) THEN [data |-> base, flash |-> <<>>]
    ELSE IF f.exc # ""
    THEN [data |-> base, flash |-> << <<"error", "OMDb fetch failed", f.exc>> >>]
    ELSE IF no_match(f.info) THEN [data |-> base, flash |-> <<>>]
    ELSE
        LET ys == year_str(f.info)
            head == Merge(base,
                          [title |-> Or(f.info.Title,
                                        IF "title" \in DOMAIN base THEN base["title"]
                                        ELSE movie.title),
                           director |-> Or(f.info.Director, movie.director)])
        IN  IF isdigit(ys) /\ int_raises(ys)
            \* int() raises inside the try: title and director are already staged
            THEN [data |-> head, flash |-> << <<"error", "OMDb fetch failed", "ValueError">> >>]
            ELSE [data |-> Merge(Merge(head,
                                       IF isdigit(ys) THEN [year |-> <<int_value(ys)>>]
                                       ELSE NoFields),
                                 [poster_url |-> poster_of(f.info)]),
                  flash |-> <<>>]

route_update_movie_noowner(us, ms, key, user_id, movie_id, form_title, refetch, net) ==
    LET title == or_empty_strip(form_title) IN
    IF get_movie(ms, movie_id) = {}
    THEN Done(us, ms, Html("update_movie", user_id, movie_id,
                           << <<"error", "Movie not found.", "">> >>))
    ELSE
        LET movie == CHOOSE m \in get_movie(ms, movie_id) : TRUE
            nd == update_new_data(movie, title, refetch, fetch_omdb_by_title(key, net))
            r == update_movie(us, ms, movie_id, nd.data)
        IN  IF r.exc = ""
            THEN Done(r.users, r.movies,
                      Html("update_movie", user_id, movie_id,
                           Append(nd.flash, <<"success", "Movie updated.", "">>)))
            ELSE IF r.exc = "ValueError"
            THEN Done(r.users, r.movies,
                      Html("update_movie", user_id, movie_id,
                           Append(nd.flash, <<"error", r.msg, "">>)))
            ELSE Done(r.users, r.movies, Uncaught("update_movie", user_id, movie_id, r.exc))

route_update_movie(us, ms, key, user_id, movie_id, form_title, refetch, net) ==
    LET title == or_empty_strip(form_title) IN
    IF get_movie(ms, movie_id) = {}
       \/ (CHOOSE m \in get_movie(ms, movie_id) : TRUE).user_id # user_id
    THEN Done(us, ms, Html("update_movie", user_id, movie_id,
                           << <<"error", "Movie not found.", "">> >>))
    ELSE
        LET movie == CHOOSE m \in get_movie(ms, movie_id) : TRUE
            nd == update_new_data(movie, title, refetch, fetch_omdb_by_title(key, net))
            r == update_movie(us, ms, movie_id, nd.data)
        IN  IF r.exc = ""
            THEN Done(r.users, r.movies,
                      Html("update_movie", user_id, movie_id,
                           Append(nd.flash, <<"success", "Movie updated.", "">>)))
            ELSE IF r.exc = "ValueError"
            THEN Done(r.users, r.movies,
                      Html("update_movie", user_id, movie_id,
                           Append(nd.flash, <<"error", r.msg, "">>)))
            ELSE Done(r.users, r.movies, Uncaught("update_movie", user_id, movie_id, r.exc))

\* user_id is only the redirect target
route_delete_movie(us, ms, user_id, movie_id) ==
    LET r == delete_movie(us, ms, movie_id) IN
    IF r.exc = ""
    THEN Done(r.users, r.movies,
              Html("delete_movie", user_id, movie_id, << <<"success", "Movie deleted.", "">> >>))
    ELSE Done(r.users, r.movies,
              Html("delete_movie", user_id, movie_id, << <<"error", r.msg, "">> >>))

route_api_create_user(us, ms, payload_name) ==
    LET name == or_empty_strip(payload_name) IN
    IF name = <<>> THEN Done(us, ms, Json("api_create_user", 0, 0, 400, "name is required", ""))
    ELSE
        LET r == create_user(us, ms, name) IN
        IF r.exc = "" THEN Done(r.users, r.movies, Json("api_create_user", r.id, 0, 201, "", ""))
        ELSE Done(r.users, r.movies, Json("api_create_user", 0, 0, 400, r.msg, ""))

route_api_user_movies(us, ms, user_id) ==
    IF get_user(us, user_id) = {}
    THEN Done(us, ms, Json("api_user_movies", user_id, 0, 404, "user not found", ""))
    ELSE Done(us, ms, Json("api_user_movies", user_id, 0, 200, "", ""))

route_api_add_movie(us, ms, key, user_id, payload_title, net) ==
    LET p == api_add_movie_plan(payload_title, fetch_omdb_by_title(key, net)) IN
    IF p.kind = "respond"
    THEN Done(us, ms, Json("api_add_movie", user_id, 0, p.status, p.msg, p.exc))
    ELSE IF p.kind = "raise"
    THEN Done(us, ms, Uncaught("api_add_movie", user_id, 0, p.exc))
    ELSE
        LET r == add_movie(us, ms, user_id, p.title, p.director, p.year, p.poster_url) IN
        IF r.exc = ""
        THEN Done(r.users, r.movies, Json("api_add_movie", user_id, r.id, 201, "", ""))
        ELSE Done(r.users, r.movies, Json("api_add_movie", user_id, 0, 400, r.msg, ""))

route_api_update_movie(us, ms, movie_id, payload) ==
    LET r == update_movie(us, ms, movie_id, payload) IN
    IF r.exc = "" THEN Done(r.users, r.movies, Json("api_update_movie", 0, movie_id, 200, "", ""))
    ELSE IF r.exc = "ValueError"
    THEN Done(r.users, r.movies, Json("api_update_movie", 0, movie_id, 400, r.msg, ""))
    ELSE Done(r.users, r.movies, Uncaught("api_update_movie", 0, movie_id, r.exc))

route_api_delete_movie_400(us, ms, movie_id) ==
    LET r == delete_movie(us, ms, movie_id) IN
    IF r.exc = "" THEN Done(r.users, r.movies, Json("api_delete_movie", 0, movie_id, 204, "", ""))
    ELSE Done(r.users, r.movies, Json("api_delete_movie", 0, movie_id, 400, r.msg, ""))

route_api_delete_movie(us, ms, movie_id) ==
    LET r == delete_movie(us, ms, movie_id) IN
    IF r.exc = "" THEN Done(r.users, r.movies, Json("api_delete_movie", 0, movie_id, 204, "", ""))
    ELSE Done(r.users, r.movies, Json("api_delete_movie", 0, movie_id, 404, r.msg, ""))

------------------------------------------------------------------------------
(* Requests: the values a form field, a JSON body and the network can take *)

\* a missing field, blank text, and text with and without padding
NameInputs == {None, <<>>, <<" ">>, <<"a">>, <<" ", "a">>, <<"b">>}
TitleInputs == {<<" ">>, <<"a">>, <<" ", "a">>}

InfoFull ==
    Info(<<"a">>, <<"Nolan">>, <<"2", "0", "0", "1", EnDash, "2", "0", "0", "3">>,
         <<"P">>, <<"True">>)
InfoBare == Info(None, None, <<"N", "/", "A">>, <<"N/A">>, <<"True">>)
InfoSup == Info(None, None, <<Sup2>>, None, <<"True">>)
InfoFalse == Info(None, None, None, None, <<"False">>)

Infos == {InfoFull, InfoBare, InfoSup, InfoFalse, EmptyInfo}

NetOutcomes ==
    {[exc |-> "RequestException", info |-> EmptyInfo]}
        \cup {[exc |-> "", info |-> i] : i \in Infos}

Payloads ==
    {NoFields}
        \cup {[title |-> t] : t \in TitleInputs \cup {None}}
        \cup {[title |-> t, director |-> <<"Nolan">>, year |-> <<2001>>,
               poster_url |-> <<"P">>] : t \in {<<>>, <<"a">>, <<" ", "a">>}}
        \* keys outside the allow-list, alone and next to the allowed keys
        \cup {[id |-> <<9>>, user_id |-> <<9>>],
              [id |-> <<9>>, user_id |-> <<9>>, title |-> <<"a">>, director |-> <<"Nolan">>,
               year |-> <<2001>>, poster_url |-> <<"P">>],
              [movie_id |-> <<9>>]}

\* What the lookup does for the update route's re-lookup.
RefetchOutcomes == {n \in NetOutcomes : n.info \in {InfoFull, InfoSup, InfoFalse}}

\* Path ids: every stored id and one id that is not stored.
UserIds == {u.id : u \in users} \cup {next_id(users)}
MovieIds == {m.id : m \in movies} \cup {next_id(movies)}

Procs == {"r1", "r2"}

Idle == [pc |-> "idle"]
NoExtract == [kind |-> "none"]
NoResponse == Response("none", 0, 0, 0, <<>>, "", "")

\* The id counters stay within the model's bounds.
Bounded(d) ==
    /\ \A u \in d.users : u.id <= MaxUsers
    /\ \A m \in d.movies : m.id <= MaxMovies

Init ==
    /\ users = {}
    /\ movies = {}
    /\ apiKey \in BOOLEAN
    /\ resp = NoResponse
    /\ sess = [p \in Procs |-> Idle]
    /\ xin = NoExtract
    /\ xhtml = NoExtract
    /\ xapi = NoExtract

\* One request served from start to finish.
Serve(d) ==
    /\ Bounded(d)
    /\ users' = d.users
    /\ movies' = d.movies
    /\ resp' = d.resp
    /\ UNCHANGED <<apiKey, sess, xin, xhtml, xapi>>

CreateUser == \E name \in NameInputs : Serve(route_create_user(users, movies, name))

AddMovie ==
    \E user_id \in UserIds, title \in TitleInputs, net \in NetOutcomes :
        Serve(route_add_movie(users, movies, apiKey, user_id, title, net))

UpdateMovie ==
    \E user_id \in UserIds, movie_id \in MovieIds, title \in TitleInputs,
       refetch \in BOOLEAN, net \in RefetchOutcomes :
        Serve(route_update_movie(users, movies, apiKey, user_id, movie_id, title, refetch, net))

DeleteMovie ==
    \E user_id \in UserIds, movie_id \in MovieIds :
        Serve(route_delete_movie(users, movies, user_id, movie_id))

ApiCreateUser == \E name \in NameInputs : Serve(route_api_create_user(users, movies, name))

ApiUserMovies == \E user_id \in UserIds : Serve(route_api_user_movies(users, movies, user_id))

ApiAddMovie ==
    \E user_id \in UserIds, title \in TitleInputs, net \in NetOutcomes :
        Serve(route_api_add_movie(users, movies, apiKey, user_id, title, net))

ApiUpdateMovie ==
    \E movie_id \in MovieIds, payload \in Payloads :
        Serve(route_api_update_movie(users, movies, movie_id, payload))

ApiDeleteMovie ==
    \E movie_id \in MovieIds : Serve(route_api_delete_movie(users, movies, movie_id))

Next ==
    \/ CreateUser
    \/ AddMovie
    \/ UpdateMovie
    \/ DeleteMovie
    \/ ApiCreateUser
    \/ ApiUserMovies
    \/ ApiAddMovie
    \/ ApiUpdateMovie
    \/ ApiDeleteMovie

Spec == Init /\ [][Next]_vars

------------------------------------------------------------------------------
(* Two requests at once.  Each request has its own session: the DataManager *)
(* call reads and stages (Begin), and commit() runs later against the       *)
(* tables as they are then (Commit); the engine serialises commits.  A      *)
(* round is at most one call per request; Return ends the round.            *)
(* `began` is the number of commits of the round the call began after, and  *)
(* `free` tells whether the unique value it writes was unused at that time. *)

\* The uniqueness-constrained value a statement writes, if any.
WritesKey(st) ==
    \/ st.op \in {"insert_user", "insert_movie"}
    \/ (st.op = "update_movie" /\ "title" \in DOMAIN st.cols)

KeyOf(st) ==
    CASE st.op = "insert_user" -> <<"users.name", 0, st.name>>
      [] st.op = "insert_movie" -> <<"movies.user_id,title", st.user_id, st.title>>
      [] st.op = "update_movie" -> <<"movies.user_id,title", st.user_id, st.cols["title"]>>

\* The stored records that hold the value.
Holders(us, ms, key) ==
    IF key[1] = "users.name" THEN {u \in us : u.name = key[3]}
    ELSE {m \in ms : m.user_id = key[2] /\ m.title = key[3]}

Begin(p, st, dupmsg) ==
    /\ sess[p].pc = "idle"
    /\ sess' = [sess EXCEPT ![p] =
                  IF st.op = "raise"
                  THEN [pc |-> "done", st |-> st, exc |-> "ValueError", msg |-> st.msg,
                        began |-> 0, free |-> FALSE]
                  ELSE [pc |-> "staged", st |-> st, dupmsg |-> dupmsg,
                        began |-> Cardinality({q \in Procs : sess[q].pc = "done"}),
                        free |-> WritesKey(st) /\ Holders(users, movies, KeyOf(st)) = {}]]
    /\ UNCHANGED <<users, movies, apiKey, resp, xin, xhtml, xapi>>

BeginCreateUser(p) ==
    \E name \in NameInputs : Begin(p, create_user_stage(name), "User already exists.")

BeginAddMovie(p) ==
    \E user_id \in UserIds, title \in TitleInputs :
        Begin(p, add_movie_stage(users, user_id, title, <<"Unknown">>, NoYear, None),
              "This user already has a movie with that title.")

BeginUpdateMovie(p) ==
    \E movie_id \in MovieIds, title \in TitleInputs :
        Begin(p, update_movie_stage(movies, movie_id, [title |-> title]),
              "Duplicate movie title for this user.")

BeginDeleteMovie(p) ==
    \E movie_id \in MovieIds : Begin(p, delete_movie_stage(movies, movie_id), "")

Commit(p) ==
    /\ sess[p].pc = "staged"
    /\ LET r == finish(users, movies, sess[p].st, sess[p].dupmsg) IN
       /\ Bounded(r)
       /\ users' = r.users
       /\ movies' = r.movies
       /\ sess' = [sess EXCEPT ![p] =
                     [pc |-> "done", st |-> sess[p].st, exc |-> r.exc, msg |-> r.msg,
                      began |-> sess[p].began, free |-> sess[p].free]]
    /\ UNCHANGED <<apiKey, resp, xin, xhtml, xapi>>

Return ==
    /\ \A p \in Procs : sess[p].pc # "staged"
    /\ \E p \in Procs : sess[p].pc = "done"
    /\ sess' = [p \in Procs |-> Idle]
    /\ UNCHANGED <<users, movies, apiKey, resp, xin, xhtml, xapi>>

NextConc ==
    \/ \E p \in Procs : BeginCreateUser(p)
    \/ \E p \in Procs : BeginAddMovie(p)
    \/ \E p \in Procs : BeginUpdateMovie(p)
    \/ \E p \in Procs : BeginDeleteMovie(p)
    \/ \E p \in Procs : Commit(p)
    \/ Return

InitConc == Init /\ apiKey = TRUE

SpecConc == InitConc /\ [][NextConc]_vars

------------------------------------------------------------------------------
(* Deleting a user.  No route and no DataManager method deletes a user; the *)
(* relationship User.movies declares what the ORM does when one is deleted. *)

delete_user(us, ms, user_id) ==
    [users |-> us \ get_user(us, user_id),
     movies |-> {m \in ms : m.user_id # user_id}]

DeleteUser ==
    \E u \in users :
        LET d == delete_user(users, movies, u.id) IN
        /\ users' = d.users
        /\ movies' = d.movies
        /\ resp' = Response("delete_user", u.id, 0, 0,
                            IF d.movies # movies
                            THEN << <<"cascade", "movies deleted", "">> >> ELSE <<>>,
                            "", "")
        /\ UNCHANGED <<apiKey, sess, xin, xhtml, xapi>>

NextCascade == Next \/ DeleteUser

SpecCascade == Init /\ [][NextCascade]_vars

------------------------------------------------------------------------------
(* The two add-movie routes on the same submitted title and lookup result *)

YearChars == {"2", EnDash, " ", Sup2, "x"}

RECURSIVE TextsUpTo(_, _)
TextsUpTo(chars, n) ==
    IF n = 0 THEN {<<>>}
    ELSE LET shorter == TextsUpTo(chars, n - 1)
         IN  shorter \cup {Append(t, c) : t \in {x \in shorter : Len(x) = n - 1}, c \in chars}

ExtractInfos ==
    {Info(t, d, y, p, <<"True">>) :
        t \in {None, <<"a">>}, d \in {None, <<"Nolan">>},
        y \in {None} \cup TextsUpTo(YearChars, MaxYearLen),
        p \in {None, <<"N/A">>, <<"P">>}}
        \cup {InfoFalse, EmptyInfo}

InitExtract ==
    /\ users = {}
    /\ movies = {}
    /\ apiKey = TRUE
    /\ resp = NoResponse
    /\ sess = [p \in Procs |-> Idle]
    /\ xin \in [title : {<<" ">>, <<" ", "a">>},
                net : {[exc |-> "RequestException", info |-> EmptyInfo]}
                         \cup {[exc |-> "", info |-> i] : i \in ExtractInfos}]
    /\ xhtml = NoExtract
    /\ xapi = NoExtract

ExtractHtml ==
    /\ xhtml = NoExtract
    /\ xhtml' = add_movie_plan(xin.title, fetch_omdb_by_title(apiKey, xin.net))
    /\ UNCHANGED <<users, movies, apiKey, resp, sess, xin, xapi>>

ExtractApi ==
    /\ xapi = NoExtract
    /\ xapi' = api_add_movie_plan(xin.title, fetch_omdb_by_title(apiKey, xin.net))
    /\ UNCHANGED <<users, movies, apiKey, resp, sess, xin, xhtml>>

NextExtract == ExtractHtml \/ ExtractApi

SpecExtract == InitExtract /\ [][NextExtract]_vars

------------------------------------------------------------------------------
(* Vocabulary of the properties *)

\* The error kinds of the data access layer, by the message the call raises.
InvalidInputMsgs ==
    {"User name cannot be empty.", "Movie title cannot be empty.", "Title cannot be empty."}
NotFoundMsgs == {"User does not exist.", "Movie not found."}
DuplicateMsgs ==
    {"User already exists.", "This user already has a movie with that title.",
     "Duplicate movie title for this user."}
DomainMsgs == InvalidInputMsgs \cup NotFoundMsgs \cup DuplicateMsgs

HtmlRoutes == {"create_user", "add_movie", "update_movie", "delete_movie"}
ApiRoutes ==
    {"api_create_user", "api_user_movies", "api_add_movie", "api_update_movie",
     "api_delete_movie"}

\* The last message a response carries: the last flash, or the JSON error.
LastMsg(r) == IF r.flash # <<>> THEN r.flash[Len(r.flash)][2] ELSE r.error
Flashed(r, category, msg) == \E i \in 1..Len(r.flash) : r.flash[i][1] = category /\ r.flash[i][2] = msg

Blank(t) == or_empty_strip(t) = <<>>
Padded(t) == t # <<>> /\ (t[1] = " " \/ t[Len(t)] = " ")

OwnsTitle(ms, user_id, title) == \E m \in ms : m.user_id = user_id /\ m.title = title
MovieIdsOf(ms) == {m.id : m \in ms}

------------------------------------------------------------------------------
(* C1 *)

\* C1: in every reachable state no user owns two movies with the same title;
\* an addMovie for a user who already has the (trimmed) title, and an
\* updateMovie that sets a movie's title to the title of another movie of the
\* same user, fail with DuplicateResource and store nothing.
C1_UniqueTitlePerUser ==
    /\ \A m1, m2 \in movies :
          m1.id # m2.id => ~(m1.user_id = m2.user_id /\ m1.title = m2.title)
    /\ \A user_id \in UserIds, title \in TitleInputs :
          OwnsTitle(movies, user_id, or_empty_strip(title)) =>
              LET r == add_movie(users, movies, user_id, title, None, NoYear, None) IN
              /\ r.exc = "ValueError" /\ r.msg \in DuplicateMsgs
              /\ r.movies = movies
    /\ \A m \in movies, title \in TitleInputs :
          OwnsTitle(movies \ {m}, m.user_id, title) =>
              LET r == update_movie(users, movies, m.id, [title |-> title]) IN
              /\ r.exc = "ValueError" /\ r.msg \in DuplicateMsgs
              /\ r.movies = movies

\* A refused duplicate: the last request was an add-movie that failed with
\* DuplicateResource, and a user holds two movies (with different titles).
C1_Witness ==
    /\ resp.route \in {"add_movie", "api_add_movie"}
    /\ LastMsg(resp) = "This user already has a movie with that title."
    /\ \E m1, m2 \in movies : m1.id # m2.id /\ m1.user_id = m2.user_id

------------------------------------------------------------------------------
(* C2 *)

\* C2: a step whose response carries a domain error of the data access layer
\* (InvalidInput, NotFound, DuplicateResource) leaves the stored users and
\* movies, every field of every movie included, exactly as they were; and in
\* every reachable state an updateMovie that supplies several fields and
\* fails returns the store it was given.
C2_FailureLeavesStore ==
    /\ [][LastMsg(resp') \in DomainMsgs => (users' = users /\ movies' = movies)]_vars
    /\ [](\A movie_id \in MovieIds, payload \in Payloads :
            LET r == update_movie(users, movies, movie_id, payload) IN
            r.exc = "ValueError" =>
                (r.msg \in DomainMsgs /\ r.users = users /\ r.movies = movies))

\* An update that supplied title, director, year and poster_url failed on the
\* title (a duplicate) and the movie still has its old director.
C2_Witness ==
    /\ resp.route = "api_update_movie"
    /\ resp.error = "Duplicate movie title for this user."
    /\ \E m \in movies : m.id = resp.movie_id /\ m.director = <<"Unknown">>
    /\ \E payload \in Payloads :
          /\ {"title", "director", "year", "poster_url"} \subseteq DOMAIN payload
          /\ update_movie(users, movies, resp.movie_id, payload).msg = resp.error

------------------------------------------------------------------------------
(* C3 *)

LookupFailed(f) == f.exc # "" \/ f.info = EmptyInfo \/ f.info.Response = <<"False">>

\* C3: a step that creates a movie record or increases the number of movies
\* is an add-movie request (HTML or JSON) that answered success; and in every
\* reachable state an add-movie request whose lookup raises (the missing-key
\* error included), returns an empty result or returns Response "False"
\* leaves the movies unchanged and surfaces the failure: an error message on
\* the HTML route, an error body on the JSON route, with 404 for a no-match.
C3_OnlyLookedUpAdds ==
    /\ [][(MovieIdsOf(movies') \ MovieIdsOf(movies) # {}
             \/ Cardinality(movies') > Cardinality(movies)) =>
            /\ resp'.route \in {"add_movie", "api_add_movie"}
            /\ (Flashed(resp', "success", "Added") \/ resp'.status = 201)]_vars
    /\ [](\A user_id \in UserIds, title \in TitleInputs, net \in NetOutcomes :
            LET f == fetch_omdb_by_title(apiKey, net)
                h == route_add_movie(users, movies, apiKey, user_id, title, net)
                a == route_api_add_movie(users, movies, apiKey, user_id, title, net)
            IN  LookupFailed(f) =>
                    /\ h.movies = movies /\ a.movies = movies
                    /\ Len(h.resp.flash) = 1 /\ h.resp.flash[1][1] = "error"
                    /\ a.resp.error # "" /\ a.resp.status \in {400, 404, 502}
                    /\ (~Blank(title) /\ f.exc = "") =>
                          (a.resp.status = 404 /\ h.resp.flash[1][2] = "No OMDb results")
                    /\ (~Blank(title) /\ f.exc # "") =>
                          (h.resp.flash[1][2] = "Failed to fetch movie info"
                           /\ h.resp.flash[1][3] = f.exc))

\* The JSON add-movie route answered 404 to a no-match while movies are stored.
C3_Witness ==
    /\ resp.route = "api_add_movie" /\ resp.status = 404 /\ resp.error = "no results"
    /\ movies # {}

------------------------------------------------------------------------------
(* C5 *)

\* C5 as claimed: on a JSON route an error body has status 400 for invalid
\* input or a duplicate, 404 for every not-found outcome and for a no-match,
\* 502 for a transport failure of the lookup.
C5_StatusByErrorKind ==
    (resp.route \in ApiRoutes /\ resp.error # "") =>
        /\ resp.error \in InvalidInputMsgs \cup DuplicateMsgs
                          \cup {"name is required", "title is required"}
              => resp.status = 400
        /\ resp.error \in NotFoundMsgs \cup {"user not found", "no results"}
              => resp.status = 404
        /\ (resp.error = "OMDb request failed" /\ resp.exc = "RequestException")
              => resp.status = 502

\* C5 amended: on a JSON route every answer with status 400, 404 or 502 has an
\* {error: message} body, and every error body has the status its route gives
\* it: 400 for a missing name or title and for every error raised by
\* createUser, addMovie or updateMovie (user absent on add-movie and movie
\* absent on update included); 404 for a user absent on the movie-list route,
\* a movie absent on the delete route and a lookup no-match; 502 for any
\* exception raised by the lookup.
C5_StatusByRoute ==
    resp.route \in ApiRoutes =>
        /\ resp.status \in {400, 404, 502} => resp.error # ""
        /\ resp.error # "" =>
            resp.status =
                CASE resp.error \in {"name is required", "title is required"} -> 400
                  [] resp.error = "user not found" -> 404
                  [] resp.error = "no results" -> 404
                  [] resp.error = "OMDb request failed" -> 502
                  [] resp.error \in DomainMsgs /\ resp.route = "api_delete_movie" -> 404
                  [] resp.error \in DomainMsgs /\ resp.route # "api_delete_movie" -> 400

\* The JSON update route answered 400 for a movie that is not stored.
C5_Witness ==
    /\ resp.route = "api_update_movie" /\ resp.error = "Movie not found."
    /\ resp.status = 400
    /\ get_movie(movies, resp.movie_id) = {}

------------------------------------------------------------------------------
(* C6 *)

\* The movie the request names is stored and its owner is not the path's user.
NotOwner(ms, r) == \E m \in ms : m.id = r.movie_id /\ m.user_id # r.user_id

\* C6 as claimed: a step of the HTML update or delete route for a movie that
\* is stored but not owned by the user in the path shows "Movie not found."
\* and leaves the movies as they were.
C6_ForeignMovieIsNotFound ==
    [][(resp'.route \in {"update_movie", "delete_movie"} /\ NotOwner(movies, resp')) =>
          (LastMsg(resp') = "Movie not found." /\ movies' = movies)]_vars

\* C6 amended: a step of the HTML update route for a movie not owned by the
\* user in the path shows "Movie not found." and leaves the movies as they
\* were; a step of the HTML delete route for a stored movie deletes that
\* movie, whoever the user in the path is.
C6_OnlyUpdateChecksOwner ==
    /\ [][(resp'.route = "update_movie" /\ NotOwner(movies, resp')) =>
            (LastMsg(resp') = "Movie not found." /\ movies' = movies)]_vars
    /\ [][(resp'.route = "delete_movie" /\ get_movie(movies, resp'.movie_id) # {}
           /\ (movies' # movies \/ resp' # resp)) =>
            (/\ movies' = movies \ get_movie(movies, resp'.movie_id)
             /\ LastMsg(resp') = "Movie deleted.")]_vars

\* The HTML update route refused a stored movie of another user.
C6_Witness ==
    /\ resp.route = "update_movie" /\ LastMsg(resp) = "Movie not found."
    /\ NotOwner(movies, resp)

------------------------------------------------------------------------------
(* C8 *)

\* C8: in every reachable state every stored user name is non-empty and
\* trimmed and no two users have the same name; createUser with a name that
\* trims to a stored name fails with DuplicateResource and leaves exactly one
\* user of that name; createUser with an empty or all-blank name fails with
\* InvalidInput and stores nothing.
C8_UniqueTrimmedNames ==
    /\ \A u \in users : u.name # <<>> /\ u.name # None /\ ~Padded(u.name)
    /\ \A u1, u2 \in users : u1.id # u2.id => u1.name # u2.name
    /\ \A name \in NameInputs :
          LET r == create_user(users, movies, name)
              n == or_empty_strip(name)
          IN  /\ n = <<>> =>
                    (r.exc = "ValueError" /\ r.msg \in InvalidInputMsgs /\ r.users = users)
              /\ (\E u \in users : u.name = n) =>
                    /\ r.exc = "ValueError" /\ r.msg \in DuplicateMsgs
                    /\ r.users = users
                    /\ Cardinality({u \in r.users : u.name = n}) = 1

\* A second registration of a stored name was refused.
C8_Witness ==
    /\ resp.route \in {"create_user", "api_create_user"}
    /\ LastMsg(resp) = "User already exists."
    /\ Cardinality(users) = 2

------------------------------------------------------------------------------
(* C9 *)

\* C9 as claimed: with no OMDB_API_KEY, an HTML add-movie request that reaches
\* the lookup flashes the configuration error, and a JSON add-movie request
\* that reaches the lookup ends in an uncaught exception: status 500, no
\* {error} body.
C9_JsonMissingKeyUncaught ==
    ~apiKey =>
        /\ (resp.route = "add_movie" /\ LastMsg(resp) # "Movie title is required.") =>
              resp.flash = << <<"error", "Failed to fetch movie info", "RuntimeError">> >>
        /\ (resp.route = "api_add_movie" /\ resp.error # "title is required") =>
              (resp.status = 500 /\ resp.error = "" /\ resp.exc = "RuntimeError")

\* C9 amended: with no OMDB_API_KEY, an HTML add-movie request that reaches
\* the lookup flashes the configuration error, and a JSON add-movie request
\* that reaches the lookup is answered by the route's own except clause:
\* status 502 and an {error} body carrying the configuration error.
C9_JsonMissingKeyIs502 ==
    ~apiKey =>
        /\ (resp.route = "add_movie" /\ LastMsg(resp) # "Movie title is required.") =>
              resp.flash = << <<"error", "Failed to fetch movie info", "RuntimeError">> >>
        /\ (resp.route = "api_add_movie" /\ resp.error # "title is required") =>
              (resp.status = 502 /\ resp.error = "OMDb request failed"
               /\ resp.exc = "RuntimeError")

\* The JSON add-movie route met the missing key.
C9_Witness ==
    ~apiKey /\ resp.route = "api_add_movie" /\ resp.exc = "RuntimeError"

------------------------------------------------------------------------------
(* C4 *)

\* Two finished calls of one round that began before either committed, wrote
\* the same uniqueness-constrained value into two different records, and
\* found the value unused when they began.
Raced(p, q) ==
    /\ p # q
    /\ sess[p].pc = "done" /\ sess[q].pc = "done"
    /\ WritesKey(sess[p].st) /\ WritesKey(sess[q].st)
    /\ KeyOf(sess[p].st) = KeyOf(sess[q].st)
    /\ ~(sess[p].st.op = "update_movie" /\ sess[q].st.op = "update_movie"
         /\ sess[p].st.id = sess[q].st.id)
    /\ sess[p].began = 0 /\ sess[q].began = 0
    /\ sess[p].free /\ sess[q].free

------------------------------------------------------------------------------
(* C7 *)

\* C7: in every reachable state, deletions of users included, every stored
\* movie's user_id is the id of a stored user (so the step that deletes a
\* user leaves none of that user's movies).
C7_MovieHasOwner == \A m \in movies : \E u \in users : u.id = m.user_id

\* A user who owned movies was deleted, and another user's movies remain.
C7_Witness ==
    /\ resp.route = "delete_user"
    /\ resp.flash # <<>>
    /\ get_user(users, resp.user_id) = {}
    /\ movies # {}

------------------------------------------------------------------------------
(* C10 *)

\* The call of addMovie a route makes, if it makes one.
CallOf(p) ==
    [called |-> p.kind = "call", title |-> p.title, director |-> p.director,
     year |-> p.year, poster_url |-> p.poster_url]

\* C10: for every submitted title and every lookup result the two add-movie
\* routes pass the same (title, director, year, poster_url) to addMovie (or
\* both pass nothing); director is the metadata Director or "Unknown", year
\* is the integer before the en dash of Year or absent, poster_url is Poster
\* or absent when Poster is missing or "N/A".
C10_SameAddMovieCall ==
    (xhtml # NoExtract /\ xapi # NoExtract) =>
        /\ CallOf(xhtml) = CallOf(xapi)
        /\ xapi.kind = "call" =>
              /\ xapi.director = Or(xin.net.info.Director, <<"Unknown">>)
              /\ LET ys == year_str(xin.net.info) IN
                 xapi.year = IF ys # <<>> /\ \A i \in 1..Len(ys) : ys[i] \in DecimalChars
                             THEN <<int_value(ys)>> ELSE NoYear
              /\ xapi.poster_url =
                    IF xin.net.info.Poster \in {None, <<"N/A">>} THEN None
                    ELSE xin.net.info.Poster

------------------------------------------------------------------------------
(* C11 *)

\* The id and the owner of every movie of a table.
OwnerOf(ms) == {<<m.id, m.user_id>> : m \in ms}

\* C11: in every reachable state, an update of a stored movie through the
\* JSON update route writes only title, director, year and poster_url: every
\* other key of the body is ignored without error (the answer and the store
\* are those of the body without these keys), every movie keeps its id and
\* its owner, and a body whose keys are all outside the allow-list is
\* answered 200 and leaves the movies unchanged.
C11_OnlyAllowedFieldsWritten ==
    \A movie_id \in MovieIdsOf(movies), payload \in Payloads :
        LET kept == [k \in (DOMAIN payload) \cap allowed |-> payload[k]]
            d == route_api_update_movie(users, movies, movie_id, payload)
            e == route_api_update_movie(users, movies, movie_id, kept)
        IN  /\ d = e
            /\ OwnerOf(d.movies) = OwnerOf(movies)
            /\ (DOMAIN payload) \cap allowed = {} =>
                  (d.resp.status = 200 /\ d.resp.exc = "" /\ d.movies = movies)

------------------------------------------------------------------------------
(* C12 *)

\* C12: in every reachable state every stored movie title is non-empty and
\* has no leading or trailing blank, and no user holds two movies whose
\* titles are equal once trimmed.
C12_StoredTitlesTrimmed ==
    /\ \A m \in movies : m.title # None /\ m.title # <<>> /\ ~Padded(m.title)
    /\ \A m1, m2 \in movies :
          (m1.id # m2.id /\ m1.user_id = m2.user_id) => strip(m1.title) # strip(m2.title)

====
